---- MODULE Spec2Model ----
(***************************************************************************)
(* A model of rs-posix-resources (src/src/lib.rs): the conversion between  *)
(* the raw rlimit record and ResourceLimits, the Resource <-> native       *)
(* identifier mapping, and get_resource_limit / set_resource_limit over a  *)
(* model of the kernel's per-process limit table.                          *)
(***************************************************************************)
EXTENDS Integers, FiniteSets, Sequences, TLC

VARIABLES
    platform,   \* the libc constants of the build: RLIM_INFINITY, RLIM_SAVED_MAX, RLIM_SAVED_CUR
    conv,       \* a value being pushed through the From/Into conversions
    kernel,     \* the kernel's view of the process: limit table, privilege, supported ids
    errno,      \* the per-thread errno cell __errno_location() points at
    threads,    \* each thread's position inside get_/set_resource_limit
    hist        \* what was last written to each resource, and the table before the last write

vars == <<platform, conv, kernel, errno, threads, hist>>

(***************************************************************************)
(* Bounds of the model.                                                    *)
(***************************************************************************)
\* raw limits (u64 in the source) range over 0..MaxRaw
MaxRaw == 3
\* conversions applied in a row to one value
MaxSteps == 2
\* native identifiers range over 0..MaxNativeId
MaxNativeId == 10
\* concrete limits passed to set_resource_limit range over 0..MaxCallRaw
MaxCallRaw == 1

Raw == 0..MaxRaw
NativeIds == 0..MaxNativeId

(***************************************************************************)
(* libc constants of the target (linux): resource identifiers and errno    *)
(* codes.                                                                  *)
(***************************************************************************)
RLIMIT_CPU == 0
RLIMIT_FSIZE == 1
RLIMIT_DATA == 2
RLIMIT_STACK == 3
RLIMIT_CORE == 4
RLIMIT_NOFILE == 7
RLIMIT_AS == 9

EPERM == 1
ENOSYS == 38
EINVAL == 22

RLIM_INFINITY == platform.RLIM_INFINITY
RLIM_SAVED_MAX == platform.RLIM_SAVED_MAX
RLIM_SAVED_CUR == platform.RLIM_SAVED_CUR

Platforms ==
    [RLIM_INFINITY : Raw, RLIM_SAVED_MAX : Raw, RLIM_SAVED_CUR : Raw]

(***************************************************************************)
(* enum ResourceLimit and struct ResourceLimits.                           *)
(***************************************************************************)
ResourceLimitInfinity == [tag |-> "ResourceLimitInfinity", n |-> 0]
ResourceLimitUnknown == [tag |-> "ResourceLimitUnknown", n |-> 0]
ResourceLimit(n) == [tag |-> "ResourceLimit", n |-> n]

ResourceLimitValues ==
    {ResourceLimitInfinity, ResourceLimitUnknown} \cup {ResourceLimit(n) : n \in Raw}

ResourceLimits == [soft_limit : ResourceLimitValues, hard_limit : ResourceLimitValues]

Rlimit == [rlim_cur : Raw, rlim_max : Raw]

\* #[derive(Ord)] on ResourceLimit: by variant in declaration order, then by payload
VariantIndex(l) ==
    CASE l.tag = "ResourceLimitInfinity" -> 0
      [] l.tag = "ResourceLimitUnknown" -> 1
      [] l.tag = "ResourceLimit" -> 2

ResourceLimitLe(a, b) ==
    \/ VariantIndex(a) < VariantIndex(b)
    \/ VariantIndex(a) = VariantIndex(b) /\ a.n <= b.n

(***************************************************************************)
(* impl From<libc::rlimit> for ResourceLimits: the match on one field.     *)
(* The source repeats the same match for rlim_cur and rlim_max.            *)
(***************************************************************************)
\* FromRaw without the RLIM_SAVED_CUR arm
FromRawNoSavedCur(other) ==
    IF other = RLIM_INFINITY THEN ResourceLimitInfinity
    ELSE IF RLIM_SAVED_MAX # RLIM_INFINITY /\ other = RLIM_SAVED_MAX
         THEN ResourceLimitUnknown
    ELSE ResourceLimit(other)

\* FromRaw testing the saved sentinels before RLIM_INFINITY
FromRawSavedFirst(other) ==
    IF RLIM_SAVED_MAX # RLIM_INFINITY /\ other = RLIM_SAVED_MAX THEN ResourceLimitUnknown
    ELSE IF other = RLIM_SAVED_CUR THEN ResourceLimitUnknown
    ELSE IF other = RLIM_INFINITY THEN ResourceLimitInfinity
    ELSE ResourceLimit(other)

FromRaw(other) ==
    IF other = RLIM_INFINITY THEN ResourceLimitInfinity
    ELSE IF RLIM_SAVED_MAX # RLIM_INFINITY /\ other = RLIM_SAVED_MAX
         THEN ResourceLimitUnknown
    ELSE IF RLIM_SAVED_CUR # RLIM_INFINITY /\ other = RLIM_SAVED_CUR
         THEN ResourceLimitUnknown
    ELSE ResourceLimit(other)

\* ResourceLimitsFrom with the two fields crossed
ResourceLimitsFromSwapped(rs) ==
    [soft_limit |-> FromRaw(rs.rlim_max), hard_limit |-> FromRaw(rs.rlim_cur)]

ResourceLimitsFrom(rs) ==
    [soft_limit |-> FromRaw(rs.rlim_cur), hard_limit |-> FromRaw(rs.rlim_max)]

(***************************************************************************)
(* impl Into<libc::rlimit> for ResourceLimits.                             *)
(***************************************************************************)
\* SoftIntoRaw writing the hard side's sentinel for Unknown
SoftIntoRawSavedMax(l) ==
    CASE l.tag = "ResourceLimitInfinity" -> RLIM_INFINITY
      [] l.tag = "ResourceLimitUnknown" -> RLIM_SAVED_MAX
      [] l.tag = "ResourceLimit" -> l.n

SoftIntoRaw(l) ==
    CASE l.tag = "ResourceLimitInfinity" -> RLIM_INFINITY
      [] l.tag = "ResourceLimitUnknown" -> RLIM_SAVED_CUR
      [] l.tag = "ResourceLimit" -> l.n

HardIntoRaw(l) ==
    CASE l.tag = "ResourceLimitInfinity" -> RLIM_INFINITY
      [] l.tag = "ResourceLimitUnknown" -> RLIM_SAVED_MAX
      [] l.tag = "ResourceLimit" -> l.n

\* ResourceLimitsInto with the two matches crossed
ResourceLimitsIntoSwapped(self) ==
    [rlim_cur |-> HardIntoRaw(self.soft_limit), rlim_max |-> SoftIntoRaw(self.hard_limit)]

ResourceLimitsInto(self) ==
    [rlim_cur |-> SoftIntoRaw(self.soft_limit), rlim_max |-> HardIntoRaw(self.hard_limit)]

(***************************************************************************)
(* enum Resource and its conversions to and from the native identifier.    *)
(***************************************************************************)
Resource ==
    {"ResourceCoreFileSize", "ResourceCPUTime", "ResourceDataSize", "ResourceFileSize",
     "ResourceOpenFiles", "ResourceStackSize", "ResourceTotalMemory"}

\* ResourceInto with ResourceTotalMemory sent to RLIMIT_DATA
ResourceIntoDup(self) ==
    CASE self = "ResourceCoreFileSize" -> RLIMIT_CORE
      [] self = "ResourceCPUTime" -> RLIMIT_CPU
      [] self = "ResourceDataSize" -> RLIMIT_DATA
      [] self = "ResourceFileSize" -> RLIMIT_FSIZE
      [] self = "ResourceOpenFiles" -> RLIMIT_NOFILE
      [] self = "ResourceStackSize" -> RLIMIT_STACK
      [] self = "ResourceTotalMemory" -> RLIMIT_DATA

ResourceInto(self) ==
    CASE self = "ResourceCoreFileSize" -> RLIMIT_CORE
      [] self = "ResourceCPUTime" -> RLIMIT_CPU
      [] self = "ResourceDataSize" -> RLIMIT_DATA
      [] self = "ResourceFileSize" -> RLIMIT_FSIZE
      [] self = "ResourceOpenFiles" -> RLIMIT_NOFILE
      [] self = "ResourceStackSize" -> RLIMIT_STACK
      [] self = "ResourceTotalMemory" -> RLIMIT_AS

\* the panic!("Invalid resource type code") arm
PanicResource == "panic: Invalid resource type code"

ResourceFrom(r) ==
    CASE r = RLIMIT_CORE -> "ResourceCoreFileSize"
      [] r = RLIMIT_CPU -> "ResourceCPUTime"
      [] r = RLIMIT_DATA -> "ResourceDataSize"
      [] r = RLIMIT_FSIZE -> "ResourceFileSize"
      [] r = RLIMIT_NOFILE -> "ResourceOpenFiles"
      [] r = RLIMIT_STACK -> "ResourceStackSize"
      [] r = RLIMIT_AS -> "ResourceTotalMemory"
      [] OTHER -> PanicResource

(***************************************************************************)
(* The conversions applied to drawn inputs.  conv holds the input, the     *)
(* value before the last conversion, the current value and the name of the *)
(* last conversion; every value is tagged with its Rust type.              *)
(***************************************************************************)
Obj(kind, v) == [kind |-> kind, v |-> v]

ConvInputs ==
    {Obj("ResourceLimits", l) : l \in ResourceLimits}
        \cup {Obj("rlimit", r) : r \in Rlimit}
        \cup {Obj("Resource", k) : k \in Resource}
        \cup {Obj("native", i) : i \in NativeIds}

ConvIdle == [in |-> Obj("none", 0), prev |-> Obj("none", 0), cur |-> Obj("none", 0),
             steps |-> 0, last |-> "none"]

ConvStep(name, out) ==
    /\ conv.steps < MaxSteps
    /\ conv' = [conv EXCEPT !.prev = conv.cur, !.cur = out,
                            !.steps = conv.steps + 1, !.last = name]
    /\ UNCHANGED <<platform, kernel, errno, threads, hist>>

\* let raw: libc::rlimit = limits.into();
ConvIntoRlimit ==
    /\ conv.cur.kind = "ResourceLimits"
    /\ ConvStep("ResourceLimitsInto", Obj("rlimit", ResourceLimitsInto(conv.cur.v)))

\* let limits: ResourceLimits = raw.into();
ConvFromRlimit ==
    /\ conv.cur.kind = "rlimit"
    /\ ConvStep("ResourceLimitsFrom", Obj("ResourceLimits", ResourceLimitsFrom(conv.cur.v)))

\* let id: libc::__rlimit_resource_t = resource.into();
ConvResourceInto ==
    /\ conv.cur.kind = "Resource"
    /\ ConvStep("ResourceInto", Obj("native", ResourceInto(conv.cur.v)))

\* let resource: Resource = id.into();   (panics on an unknown id)
ConvResourceFrom ==
    /\ conv.cur.kind = "native"
    /\ ConvStep("ResourceFrom",
                IF ResourceFrom(conv.cur.v) = PanicResource
                THEN Obj("panic", PanicResource)
                ELSE Obj("Resource", ResourceFrom(conv.cur.v)))

(***************************************************************************)
(* The kernel side of getrlimit/setrlimit: a per-process table of raw      *)
(* pairs indexed by native identifier.  RLIM_INFINITY stands for "no       *)
(* limit" and is above every other value.                                  *)
(***************************************************************************)
Threads == {"t1", "t2"}

Exceeds(a, b) ==
    /\ b # RLIM_INFINITY
    /\ (a = RLIM_INFINITY \/ a > b)

Outcome(ret, code, rlimit) == [ret |-> ret, code |-> code, rlimit |-> rlimit]

\* libc::getrlimit(resource, &mut rlimit): 0 and the pair, or -1 and EINVAL
Getrlimit(id, buf) ==
    IF id \notin kernel.supported THEN Outcome(-1, EINVAL, buf)
    ELSE Outcome(0, 0, kernel.limits[id])

\* libc::setrlimit(resource, &rlimit): 0 and the pair stored, or -1 and
\* EINVAL (unknown id, or soft above hard) or EPERM (hard raised without
\* privilege)
Setrlimit(id, new) ==
    IF id \notin kernel.supported THEN Outcome(-1, EINVAL, new)
    ELSE IF Exceeds(new.rlim_cur, new.rlim_max) THEN Outcome(-1, EINVAL, new)
    ELSE IF ~kernel.privileged /\ Exceeds(new.rlim_max, kernel.limits[id].rlim_max)
         THEN Outcome(-1, EPERM, new)
    ELSE Outcome(0, 0, new)

(***************************************************************************)
(* Results of the two operations.                                          *)
(***************************************************************************)
Ok(v) == [tag |-> "Ok", v |-> v]
Err(e) == [tag |-> "Err", v |-> e]
Panic(msg) == [tag |-> "panic", v |-> msg]
NoResult == [tag |-> "none", v |-> "none"]

\* get_resource_limit: the match on *errno
GetErrnoMatch(code) ==
    CASE code = EINVAL -> Err("GetRLimitError::Invalid")
      [] code = EPERM -> Err("GetRLimitError::Permission")
      [] OTHER -> Panic("Invalid error code")

\* SetErrnoMatch reporting success on EINVAL
SetErrnoMatchSwallow(code) ==
    CASE code = EINVAL -> Ok("()")
      [] OTHER -> Panic("Invalid error code")

\* set_resource_limit: the match on *errno
SetErrnoMatch(code) ==
    CASE code = EINVAL -> Err("SetRLimitError::Invalid")
      [] OTHER -> Panic("Invalid error code")

\* one errno cell shared by all threads
ErrnoLocationShared(t) == "t1"

\* libc::__errno_location(): the calling thread's own cell
ErrnoLocation(t) == t

(***************************************************************************)
(* Threads calling the two operations, one call each.  A thread is idle,   *)
(* or between a failed call and its read of errno, or holds the result of  *)
(* its call, or has panicked.                                              *)
(***************************************************************************)
NoLimits == [soft_limit |-> ResourceLimitInfinity, hard_limit |-> ResourceLimitInfinity]

IdleThread ==
    [pc |-> "idle", op |-> "none", resource |-> "none", r_limit |-> NoLimits,
     result |-> NoResult, code |-> 0, seen |-> Obj("none", NoLimits)]

CallValues ==
    {ResourceLimitInfinity, ResourceLimitUnknown} \cup {ResourceLimit(n) : n \in 0..MaxCallRaw}

CallLimits == [soft_limit : CallValues, hard_limit : CallValues]

\* every thread makes one call
CanCall(t) == threads[t].pc = "idle"

\* get_resource_limit(resource) up to the return of libc::getrlimit
GetCall(t, resource, out) ==
    /\ CanCall(t)
    /\ LET call == [IdleThread EXCEPT !.op = "get", !.resource = resource,
                                      !.seen = hist.written[resource]]
       IN  /\ threads' = [threads EXCEPT ![t] =
                  CASE out.ret = 0 ->
                           [call EXCEPT !.pc = "done",
                                        !.result = Ok(ResourceLimitsFrom(out.rlimit))]
                    [] out.ret = -1 -> [call EXCEPT !.pc = "errno", !.code = out.code]
                    [] OTHER -> [call EXCEPT !.pc = "panic",
                                             !.result = Panic("Invalid error return")]]
           /\ errno' = IF out.ret = -1
                       THEN [errno EXCEPT ![ErrnoLocation(t)] = out.code]
                       ELSE errno
    /\ UNCHANGED <<platform, conv, kernel, hist>>

\* get_resource_limit after a -1: read *errno and map it
GetErrno(t) ==
    /\ threads[t].pc = "errno"
    /\ threads[t].op = "get"
    /\ LET r == GetErrnoMatch(errno[ErrnoLocation(t)])
       IN  threads' = [threads EXCEPT ![t].result = r,
                           ![t].pc = IF r.tag = "panic" THEN "panic" ELSE "done"]
    /\ UNCHANGED <<platform, conv, kernel, errno, hist>>

\* set_resource_limit(resource, r_limit) up to the return of libc::setrlimit
SetCall(t, resource, r_limit) ==
    /\ CanCall(t)
    /\ LET id == ResourceInto(resource)
           out == Setrlimit(id, ResourceLimitsInto(r_limit))
           call == [IdleThread EXCEPT !.op = "set", !.resource = resource,
                                      !.r_limit = r_limit]
       IN  /\ threads' = [threads EXCEPT ![t] =
                  CASE out.ret = 0 -> [call EXCEPT !.pc = "done", !.result = Ok("()")]
                    [] out.ret = -1 -> [call EXCEPT !.pc = "errno", !.code = out.code]
                    [] OTHER -> [call EXCEPT !.pc = "panic",
                                             !.result = Panic("Invalid error return")]]
           /\ errno' = IF out.ret = -1
                       THEN [errno EXCEPT ![ErrnoLocation(t)] = out.code]
                       ELSE errno
           /\ kernel' = IF out.ret = 0
                        THEN [kernel EXCEPT !.limits[id] = out.rlimit]
                        ELSE kernel
           /\ hist' = IF out.ret = 0
                      THEN [hist EXCEPT !.written[resource] = Obj("ResourceLimits", r_limit),
                                  !.last = resource,
                                  !.before = kernel.limits]
                      ELSE hist
    /\ UNCHANGED <<platform, conv>>

\* set_resource_limit after a -1: read *errno and map it
SetErrno(t) ==
    /\ threads[t].pc = "errno"
    /\ threads[t].op = "set"
    /\ LET r == SetErrnoMatch(errno[ErrnoLocation(t)])
       IN  threads' = [threads EXCEPT ![t].result = r,
                           ![t].pc = IF r.tag = "panic" THEN "panic" ELSE "done"]
    /\ UNCHANGED <<platform, conv, kernel, errno, hist>>

SupportedIds == {ResourceInto(k) : k \in Resource}

\* the sentinels of the platforms the operations are run on
\* the sentinels of the platforms the operations are run on: all three
\* equal (linux), or three distinct values
CallPlatforms ==
    {[RLIM_INFINITY |-> MaxRaw, RLIM_SAVED_MAX |-> MaxRaw, RLIM_SAVED_CUR |-> MaxRaw],
     [RLIM_INFINITY |-> MaxRaw, RLIM_SAVED_MAX |-> MaxRaw - 1, RLIM_SAVED_CUR |-> MaxRaw - 2]}

\* the buffer get_resource_limit hands to getrlimit
ZeroRlimit == [rlim_cur |-> 0, rlim_max |-> 0]

\* what a read may report when the call is refused for a reason of the
\* environment (a syscall filter, a kernel without the call)
RefusedReads == {Outcome(-1, code, ZeroRlimit) : code \in {EINVAL, EPERM, ENOSYS}}

InitOS ==
    /\ platform \in CallPlatforms
    /\ conv = ConvIdle
    /\ \E priv \in BOOLEAN, sup \in {SupportedIds, SupportedIds \ {RLIMIT_AS}} :
           kernel = [limits |-> [id \in SupportedIds |-> [rlim_cur |-> 1, rlim_max |-> 1]],
                     privileged |-> priv, supported |-> sup]
    /\ errno = [t \in Threads |-> 0]
    /\ threads = [t \in Threads |-> IdleThread]
    /\ hist = [written |-> [k \in Resource |-> Obj("none", NoLimits)],
               last |-> "none", before |-> kernel.limits]

NextOS ==
    \E t \in Threads :
        \/ \E resource \in Resource :
               GetCall(t, resource, Getrlimit(ResourceInto(resource), ZeroRlimit))
        \/ GetErrno(t)
        \/ \E resource \in Resource, r_limit \in CallLimits : SetCall(t, resource, r_limit)
        \/ SetErrno(t)

SpecOS == InitOS /\ [][NextOS]_vars

\* the same threads on a platform where a read may also be refused
NextRefused ==
    \E t \in Threads :
        \/ \E resource \in Resource :
               \E out \in {Getrlimit(ResourceInto(resource), ZeroRlimit)} \cup RefusedReads :
                   GetCall(t, resource, out)
        \/ GetErrno(t)
        \/ \E resource \in Resource, r_limit \in CallLimits : SetCall(t, resource, r_limit)
        \/ SetErrno(t)

SpecRefused == InitOS /\ [][NextRefused]_vars

NoKernel == [limits |-> <<>>, privileged |-> FALSE, supported |-> {}]
NoHist == [written |-> <<>>, last |-> "none", before |-> <<>>]

InitConv ==
    /\ platform \in Platforms
    /\ \E i \in ConvInputs : conv = [ConvIdle EXCEPT !.in = i, !.cur = i]
    /\ kernel = NoKernel
    /\ errno = <<>>
    /\ threads = <<>>
    /\ hist = NoHist

NextConv ==
    \/ ConvIntoRlimit
    \/ ConvFromRlimit
    \/ ConvResourceInto
    \/ ConvResourceFrom

SpecConv == InitConv /\ [][NextConv]_vars

(***************************************************************************)
(* Claims about the conversions, checked under SpecConv.                   *)
(***************************************************************************)
Sentinels == {RLIM_INFINITY, RLIM_SAVED_MAX, RLIM_SAVED_CUR}

\* the value was a ResourceLimits, went through Into<rlimit> and came back through From<rlimit>
RoundTripFromLimits ==
    /\ conv.steps = 2
    /\ conv.in.kind = "ResourceLimits"
    /\ conv.last = "ResourceLimitsFrom"

\* the value was a raw rlimit, went through From<rlimit> and back through Into<rlimit>
RoundTripFromRaw ==
    /\ conv.steps = 2
    /\ conv.in.kind = "rlimit"
    /\ conv.last = "ResourceLimitsInto"

\* C1 as stated: for every limit value v on either side and every choice of
\* the sentinels, from_raw(to_raw(v)) = v.
C1_RoundTripAll ==
    RoundTripFromLimits => conv.cur.v = conv.in.v

\* one side of a pair survives the round trip: representative is the
\* sentinel that side writes for Unknown
SurvivesRoundTrip(v, representative) ==
    \/ v.tag = "ResourceLimitInfinity"
    \/ v.tag = "ResourceLimitUnknown" /\ representative # RLIM_INFINITY
    \/ v.tag = "ResourceLimit" /\ v.n \notin Sentinels

\* what one side reads back as when it does not survive
LossOfRoundTrip(v, back) ==
    \/ v.tag = "ResourceLimitUnknown" /\ back = ResourceLimitInfinity
    \/ v.tag = "ResourceLimit" /\ v.n = RLIM_INFINITY /\ back = ResourceLimitInfinity
    \/ v.tag = "ResourceLimit" /\ v.n # RLIM_INFINITY /\ back = ResourceLimitUnknown

\* C1 (amended): from_raw(to_raw(v)) = v for Unbounded, for Concrete(n) with
\* n none of the three sentinels, and for Unknown on a side whose
\* representative sentinel (saved-current for soft, saved-maximum for hard)
\* differs from the unbounded sentinel; any other value reads back as
\* Unbounded or Unknown.
C1_RoundTripAmended ==
    RoundTripFromLimits =>
        /\ IF SurvivesRoundTrip(conv.in.v.soft_limit, RLIM_SAVED_CUR)
           THEN conv.cur.v.soft_limit = conv.in.v.soft_limit
           ELSE LossOfRoundTrip(conv.in.v.soft_limit, conv.cur.v.soft_limit)
        /\ IF SurvivesRoundTrip(conv.in.v.hard_limit, RLIM_SAVED_MAX)
           THEN conv.cur.v.hard_limit = conv.in.v.hard_limit
           ELSE LossOfRoundTrip(conv.in.v.hard_limit, conv.cur.v.hard_limit)

\* a pair with an Unknown soft side and a concrete hard side came back unchanged
C1_Witness ==
    /\ RoundTripFromLimits
    /\ conv.in.v.soft_limit = ResourceLimitUnknown
    /\ conv.in.v.hard_limit.tag = "ResourceLimit"
    /\ conv.cur.v = conv.in.v

\* the decision order of section 4.2 for one raw field r read as out
DecisionOrder(r, out) ==
    /\ r = RLIM_INFINITY => out = ResourceLimitInfinity
    /\ (r # RLIM_INFINITY /\ r = RLIM_SAVED_MAX) => out = ResourceLimitUnknown
    /\ (r # RLIM_INFINITY /\ r # RLIM_SAVED_MAX /\ r = RLIM_SAVED_CUR)
           => out = ResourceLimitUnknown
    /\ r \notin Sentinels => out = ResourceLimit(r)
    /\ out.tag = "ResourceLimitUnknown" => r # RLIM_INFINITY
    /\ out.tag = "ResourceLimit" => out.n \notin Sentinels

\* C2: each field of a raw record is read in the decision order: the
\* unbounded sentinel gives Unbounded, then a saved sentinel distinct from it
\* gives Unknown, everything else Concrete(r); a colliding saved sentinel
\* reads as Unbounded and no Concrete carries a sentinel.
C2_DecisionOrder ==
    conv.last = "ResourceLimitsFrom" =>
        /\ DecisionOrder(conv.prev.v.rlim_cur, conv.cur.v.soft_limit)
        /\ DecisionOrder(conv.prev.v.rlim_max, conv.cur.v.hard_limit)

\* a saved-current sentinel that collides with the unbounded one and differs
\* from the saved-maximum one was read as Unbounded on the hard side, next
\* to a concrete soft side
C2_Witness ==
    /\ conv.last = "ResourceLimitsFrom"
    /\ RLIM_SAVED_CUR = RLIM_INFINITY
    /\ RLIM_SAVED_MAX # RLIM_INFINITY
    /\ conv.prev.v.rlim_max = RLIM_SAVED_CUR
    /\ conv.cur.v.hard_limit = ResourceLimitInfinity
    /\ conv.cur.v.soft_limit.tag = "ResourceLimit"

\* C3: to raw form, Unbounded is the unbounded sentinel on either side,
\* Unknown is the saved-maximum sentinel on the hard side and the
\* saved-current sentinel on the soft side, Concrete(n) is n; each raw field
\* is decided by its own semantic field alone.
C3_IntoRaw ==
    conv.last = "ResourceLimitsInto" =>
        LET soft == conv.prev.v.soft_limit
            hard == conv.prev.v.hard_limit
            raw == conv.cur.v
        IN  /\ soft.tag = "ResourceLimitInfinity" => raw.rlim_cur = RLIM_INFINITY
            /\ hard.tag = "ResourceLimitInfinity" => raw.rlim_max = RLIM_INFINITY
            /\ soft.tag = "ResourceLimitUnknown" => raw.rlim_cur = RLIM_SAVED_CUR
            /\ hard.tag = "ResourceLimitUnknown" => raw.rlim_max = RLIM_SAVED_MAX
            /\ soft.tag = "ResourceLimit" => raw.rlim_cur = soft.n
            /\ hard.tag = "ResourceLimit" => raw.rlim_max = hard.n
            /\ \A other \in ResourceLimitValues :
                   /\ ResourceLimitsInto([soft_limit |-> soft, hard_limit |-> other]).rlim_cur
                          = raw.rlim_cur
                   /\ ResourceLimitsInto([soft_limit |-> other, hard_limit |-> hard]).rlim_max
                          = raw.rlim_max

\* Unknown on both sides was written as two different sentinels
C3_Witness ==
    /\ conv.last = "ResourceLimitsInto"
    /\ conv.prev.v.soft_limit = ResourceLimitUnknown
    /\ conv.prev.v.hard_limit = ResourceLimitUnknown
    /\ conv.cur.v.rlim_cur = RLIM_SAVED_CUR
    /\ conv.cur.v.rlim_max = RLIM_SAVED_MAX
    /\ RLIM_SAVED_CUR # RLIM_SAVED_MAX

\* C8: the mapping of the seven kinds to native identifiers is injective
\* and undone by the reverse mapping; a native identifier outside the seven
\* images takes the panic arm and yields no kind.
C8_ResourceMapping ==
    /\ (conv.last = "ResourceInto" /\ conv.steps = 1) =>
           /\ conv.cur.v \in NativeIds
           /\ \A k \in Resource : ResourceInto(k) = conv.cur.v => k = conv.in.v
    /\ (conv.last = "ResourceFrom" /\ conv.steps = 2) =>
           /\ conv.cur.kind = "Resource"
           /\ conv.cur.v = conv.in.v
    /\ (conv.last = "ResourceFrom" /\ conv.steps = 1) =>
           IF \E k \in Resource : ResourceInto(k) = conv.in.v
           THEN conv.cur.kind = "Resource" /\ ResourceInto(conv.cur.v) = conv.in.v
           ELSE conv.cur.kind = "panic"

\* ResourceTotalMemory went to RLIMIT_AS and came back
C8_Witness ==
    /\ conv.last = "ResourceFrom"
    /\ conv.steps = 2
    /\ conv.in = Obj("Resource", "ResourceTotalMemory")
    /\ conv.prev = Obj("native", RLIMIT_AS)
    /\ conv.cur = conv.in

\* C10 as stated: for every raw pair and every choice of the sentinels,
\* reading the pair and writing the result back gives the same raw pair.
C10_WriteBackAll ==
    RoundTripFromRaw => conv.cur.v = conv.in.v

\* C10 (amended): the raw soft value is written back unchanged unless it is
\* a saved-maximum sentinel distinct from both other sentinels (then the
\* saved-current sentinel is written); the raw hard value unless it is a
\* saved-current sentinel distinct from both others (then the saved-maximum
\* sentinel is written).
C10_WriteBackAmended ==
    RoundTripFromRaw =>
        LET c == conv.in.v.rlim_cur
            m == conv.in.v.rlim_max
        IN  /\ IF c = RLIM_SAVED_MAX /\ c # RLIM_INFINITY /\ c # RLIM_SAVED_CUR
               THEN conv.cur.v.rlim_cur = RLIM_SAVED_CUR
               ELSE conv.cur.v.rlim_cur = c
            /\ IF m = RLIM_SAVED_CUR /\ m # RLIM_INFINITY /\ m # RLIM_SAVED_MAX
               THEN conv.cur.v.rlim_max = RLIM_SAVED_MAX
               ELSE conv.cur.v.rlim_max = m

\* a pair read as (Unknown, Unknown) on a platform with three distinct
\* sentinels was written back unchanged
C10_Witness ==
    /\ RoundTripFromRaw
    /\ Cardinality(Sentinels) = 3
    /\ conv.in.v = [rlim_cur |-> RLIM_SAVED_CUR, rlim_max |-> RLIM_SAVED_MAX]
    /\ conv.prev.v = [soft_limit |-> ResourceLimitUnknown, hard_limit |-> ResourceLimitUnknown]
    /\ conv.cur.v = conv.in.v

(***************************************************************************)
(* Claims about the two operations, checked under SpecOS and SpecRefused.  *)
(***************************************************************************)
Returned(t) == threads[t].pc \in {"done", "panic"}

\* C4: when setrlimit fails with EPERM (a hard limit raised without
\* privilege), set_resource_limit returns the typed error Permission; it
\* neither aborts nor reports Invalid or success.
C4_PermissionTyped ==
    \A t \in Threads :
        (threads[t].op = "set" /\ threads[t].code = EPERM /\ Returned(t)) =>
            /\ threads[t].pc = "done"
            /\ threads[t].result.tag = "Err"
            /\ threads[t].result.v = "SetRLimitError::Permission"

\* C5: a failing read has one typed outcome, Invalid, for EINVAL; every
\* other error code (EPERM included) takes the panic path.
C5_QueryOnlyInvalid ==
    \A t \in Threads :
        (threads[t].op = "get" /\ threads[t].code # 0 /\ Returned(t)) =>
            IF threads[t].code = EINVAL
            THEN /\ threads[t].result.tag = "Err"
                 /\ threads[t].result.v = "GetRLimitError::Invalid"
            ELSE threads[t].result.tag = "panic"

\* the call of thread t passes Concrete(s) above Concrete(h), neither a sentinel
SoftAboveHard(t) ==
    /\ threads[t].op = "set"
    /\ threads[t].r_limit.soft_limit.tag = "ResourceLimit"
    /\ threads[t].r_limit.hard_limit.tag = "ResourceLimit"
    /\ threads[t].r_limit.soft_limit.n > threads[t].r_limit.hard_limit.n
    /\ threads[t].r_limit.soft_limit.n \notin Sentinels
    /\ threads[t].r_limit.hard_limit.n \notin Sentinels

\* C6: for every resource and every pair Concrete(s), Concrete(h) with
\* s > h, neither a sentinel, the write is rejected with EINVAL and
\* set_resource_limit returns Err(Invalid): it neither panics nor succeeds.
C6_SoftAboveHardInvalid ==
    \A t \in Threads :
        SoftAboveHard(t) =>
            /\ threads[t].code = EINVAL
            /\ threads[t].pc \in {"errno", "done"}
            /\ threads[t].pc = "done" =>
                   /\ threads[t].result.tag = "Err"
                   /\ threads[t].result.v = "SetRLimitError::Invalid"
            /\ hist.written[threads[t].resource].kind = "ResourceLimits" =>
                   hist.written[threads[t].resource].v # threads[t].r_limit

\* Concrete(1) above Concrete(0) was answered with Err(Invalid)
C6_Witness ==
    \E t \in Threads :
        /\ SoftAboveHard(t)
        /\ threads[t].pc = "done"
        /\ threads[t].result.tag = "Err"
        /\ threads[t].result.v = "SetRLimitError::Invalid"

\* thread t has read a resource whose last write before the read was a
\* successful set with a Concrete soft limit that is no sentinel
ReadAfterWrite(t) ==
    /\ threads[t].op = "get"
    /\ threads[t].seen.kind = "ResourceLimits"
    /\ threads[t].seen.v.soft_limit.tag = "ResourceLimit"
    /\ threads[t].seen.v.soft_limit.n \notin Sentinels

C9_OwnErrno ==
    \A t \in Threads :
        /\ threads[t].pc = "errno" => errno[ErrnoLocation(t)] = threads[t].code
        /\ (Returned(t) /\ threads[t].code # 0) =>
               threads[t].result =
                   IF threads[t].op = "get"
                   THEN GetErrnoMatch(threads[t].code)
                   ELSE SetErrnoMatch(threads[t].code)

\* two threads failed with different codes and one has already received the
\* mapping of its own while the other's code is still to be read
C9_Witness ==
    \E t, u \in Threads :
        /\ t # u
        /\ threads[t].pc = "done"
        /\ threads[t].code = EINVAL
        /\ threads[t].result.tag = "Err"
        /\ threads[u].pc = "errno"
        /\ threads[u].code = EPERM

====
